---- MODULE Spec2Model ----
(***************************************************************************)
(* Trend-line detection of curve-apps: find_curves / walk_edges            *)
(* (src/curve_apps/utils.py) and TrendLinesDriver.get_connections /        *)
(* make_curve (src/curve_apps/trend_lines/driver.py).                      *)
(*                                                                         *)
(* Points live on a small integer grid so that lengths, dot products and   *)
(* the part filter are exact.  Point indices are 0-based as in the source. *)
(* An optional value (None in the source) is the empty tuple, a set value  *)
(* v is <<v>>.                                                             *)
(***************************************************************************)
EXTENDS Integers, Sequences, FiniteSets, TLC

\* ------------------------------------------------------------- bounds
\* number of input points
NPoints == 4
\* x coordinates are drawn from 0..MaxX, y coordinates from 0..MaxY
MaxX == 3
MaxY == 1
\* min_edges is drawn from 1..MaxMinEdges
MaxMinEdges == 2
\* group labels are drawn from 0..MaxLabel
MaxLabel == 2
\* number of input points when two groups are searched one after the other
GroupPoints == 6

\* ------------------------------------------------------------- options
None == <<>>
Some(v) == <<v>>
IsNone(o) == o = <<>>
Val(o) == o[1]

\* ------------------------------------------------------------- geometry
Idx == 0..(NPoints - 1)
Coords == (0..MaxX) \X (0..MaxY)

Lex(p, q) == p[1] < q[1] \/ (p[1] = q[1] /\ p[2] < q[2])

\* vertices[a] - vertices[b], as np subtraction of rows
Sub(p, q) == <<p[1] - q[1], p[2] - q[2]>>
Dot(u, v) == u[1] * v[1] + u[2] * v[2]
\* squared Euclidean norm: np.linalg.norm(v) ** 2, exact on the grid
Norm2(v) == Dot(v, v)
\* z component of the cross product of (b - a) and (c - a)
Cross(a, b, c) == (b[1] - a[1]) * (c[2] - a[2]) - (b[2] - a[2]) * (c[1] - a[1])
Abs(x) == IF x < 0 THEN -x ELSE x

\* floor of the square root, by bisection on lo..hi
RECURSIVE ISqrtIn(_, _, _)
ISqrtIn(n, lo, hi) ==
    IF lo >= hi THEN lo
    ELSE LET mid == (lo + hi + 1) \div 2
         IN  IF mid * mid <= n THEN ISqrtIn(n, mid, hi) ELSE ISqrtIn(n, lo, mid - 1)
ISqrt(n) == ISqrtIn(n, 0, 46340)

\* np.linalg.norm of a grid vector in units of 1e-3
Norm1000(v) == ISqrt(Norm2(v) * 1000000)

\* arctan(2^-i), i = 0..23, in units of 1e-7 rad
AtanTable ==
    <<7853982, 4636476, 2449787, 1243550, 624188, 312398, 156237, 78123,
      39062, 19531, 9766, 4883, 2441, 1221, 610, 305, 153, 76, 38, 19, 10, 5, 2, 1>>

Pow2(i) == 2 ^ i

\* arctan(y / x) for x > 0, y >= 0 in units of 1e-7 rad: the rotations of the
\* vector (x, y) onto the x axis by the angles of AtanTable
RECURSIVE Rotate(_, _, _, _)
Rotate(x, y, z, i) ==
    IF i >= Len(AtanTable) THEN z
    ELSE IF y > 0
         THEN Rotate(x + y \div Pow2(i), y - x \div Pow2(i), z + AtanTable[i + 1], i + 1)
         ELSE Rotate(x - y \div Pow2(i), y + x \div Pow2(i), z - AtanTable[i + 1], i + 1)

\* pi in units of 1e-7 rad
Pi7 == 31415927
\* one degree in units of 1e-7 rad (np.deg2rad)
Deg7 == 174533

\* The angle in [0, pi] between two grid vectors, in units of 1e-7 rad:
\* np.arccos(dot / (|u| |v|)), computed from the cross and dot products.
VecAngle7(u, v) ==
    LET d == Dot(u, v)
        c == Abs(u[1] * v[2] - u[2] * v[1])
    IN  IF c = 0 THEN (IF d > 0 THEN 0 ELSE Pi7)
        ELSE IF d = 0 THEN Pi7 \div 2
        ELSE IF d > 0 THEN Rotate(d * 1000000, c * 1000000, 0, 0)
        ELSE Pi7 - Rotate((-d) * 1000000, c * 1000000, 0, 0)

\* ------------------------------------------------------------- triangulation
\* scipy.spatial.Delaunay(vertices, qhull_options="QJ") is an external
\* library: its result is an input of the model.  pts is the array handed to
\* it, a function from 0..n-1 to grid points.
Triples(pts) == {t \in SUBSET (DOMAIN pts) : Cardinality(t) = 3}

\* the three corners of a simplex in ascending index order
Corner(t, k) ==
    LET lo == CHOOSE i \in t : \A j \in t : i <= j
        hi == CHOOSE i \in t : \A j \in t : i >= j
        mi == CHOOSE i \in t : i # lo /\ i # hi
    IN  IF k = 1 THEN lo ELSE IF k = 2 THEN mi ELSE hi

Orient(pts, t) == Cross(pts[Corner(t, 1)], pts[Corner(t, 2)], pts[Corner(t, 3)])

\* > 0 iff d lies strictly inside the circle through a, b, c listed counter-clockwise
InCircleDet(a, b, c, d) ==
    LET ad == Sub(a, d)
        bd == Sub(b, d)
        cd == Sub(c, d)
    IN  Norm2(ad) * (bd[1] * cd[2] - cd[1] * bd[2])
      - Norm2(bd) * (ad[1] * cd[2] - cd[1] * ad[2])
      + Norm2(cd) * (ad[1] * bd[2] - bd[1] * ad[2])

\* the empty-circumcircle property of a proper triangle
EmptyCircle(pts, t) ==
    LET a == pts[Corner(t, 1)]
        b == pts[Corner(t, 2)]
        c == pts[Corner(t, 3)]
        o == Cross(a, b, c)
    IN  /\ o # 0
        /\ \A i \in (DOMAIN pts) \ t : InCircleDet(a, b, c, pts[i]) * o <= 0

\* some edge line of t1 has t1 on one side and the whole of t2 on the other
Separates(pts, t1, t2) ==
    \E p \in t1 : \E q \in t1 \ {p} :
        LET r == CHOOSE i \in t1 : i # p /\ i # q
            s == Cross(pts[p], pts[q], pts[r])
        IN  \A v \in t2 : Cross(pts[p], pts[q], pts[v]) * s <= 0

InteriorDisjoint(pts, t1, t2) == Separates(pts, t1, t2) \/ Separates(pts, t2, t1)

Compatible(pts, T) ==
    \A t1 \in T : \A t2 \in T : t1 # t2 => InteriorDisjoint(pts, t1, t2)

\* The outcomes of the triangulation: a set of simplices (index triples) that
\* is a Delaunay triangulation of the proper triangles, to which the joggle
\* (QJ) may add flat simplices over collinear points; with fewer than three
\* non-collinear points there is nothing to triangulate and the result is
\* no simplices: None or an empty array.
DelaunayOutcomes(pts) ==
    LET good == {t \in Triples(pts) : EmptyCircle(pts, t)}
        flat == {t \in Triples(pts) : Orient(pts, t) = 0}
        full == {T \in SUBSET good :
                    /\ Compatible(pts, T)
                    /\ \A t \in good \ T : ~Compatible(pts, T \cup {t})}
    IN  {Some(T \cup F) : T \in full, F \in SUBSET flat}
            \cup (IF good = {} THEN {None} ELSE {})

\* ------------------------------------------------------------- find_curves
\* the ascending sequence of a set of integers (np.where, np.unique)
RECURSIVE Ascending(_)
Ascending(S) ==
    IF S = {} THEN <<>>
    ELSE LET m == CHOOSE x \in S : \A y \in S : x <= y
         IN  <<m>> \o Ascending(S \ {m})

\* rows of the three np.vstack blocks, each sorted and made unique: the
\* index pairs (lo, hi) that share a simplex
UniqueEdges(simplices) ==
    {e \in (UNION simplices) \X (UNION simplices) :
        e[1] < e[2] /\ \E t \in simplices : {e[1], e[2]} \subseteq t}

\* squared length of an edge
Dist2(verts, e) == Norm2(Sub(verts[e[1]], verts[e[2]]))

\* the rows left in np.unique's order: np.argsort not applied
EdgeBeforeUnsorted(verts, e, f) == Lex(e, f)

\* order of the rows after np.argsort(distances) applied to the np.unique
\* rows: by length, rows of equal length staying in np.unique's order
EdgeBefore(verts, e, f) ==
    \/ Dist2(verts, e) < Dist2(verts, f)
    \/ Dist2(verts, e) = Dist2(verts, f) /\ Lex(e, f)

RECURSIVE SortEdges(_, _)
SortEdges(verts, S) ==
    IF S = {} THEN <<>>
    ELSE LET m == CHOOSE e \in S : \A f \in S \ {e} : EdgeBefore(verts, e, f)
         IN  <<m>> \o SortEdges(verts, S \ {m})

\* the comparison taken strict: an edge of exactly max_distance is dropped
WithinDistanceStrict(verts, e, max_distance) ==
    Dist2(verts, e) < Val(max_distance) * Val(max_distance)

\* distances <= params.max_distance
WithinDistance(verts, e, max_distance) ==
    Dist2(verts, e) <= Val(max_distance) * Val(max_distance)

\* the part filter left out
CrossPartsAll(prts, e) == TRUE

\* part id 0 taken for "no part": its points are never joined
CrossPartsNonZero(prts, e) == prts[e[1]] # prts[e[2]] /\ prts[e[1]] # 0 /\ prts[e[2]] # 0

\* edge_parts[:, 0] != edge_parts[:, 1]
CrossParts(prts, e) == prts[e[1]] # prts[e[2]]

\* (sin(azimuth), cos(azimuth)) up to a positive factor, azimuth a multiple of 45
TestVector(azimuth) ==
    LET a == (azimuth % 360) \div 45
    IN  <<(<<0, 1, 1, 1, 0, -1, -1, -1>>)[a + 1], (<<1, 1, 0, -1, -1, -1, 0, 1>>)[a + 1]>>

\* np.deg2rad(azimuth_tol) in units of 1e-7 rad; azimuth_tol is held in tenths
\* of a degree
Tol7(azimuth_tol) == (azimuth_tol * Deg7) \div 10

\* only the direction itself is compared, not its reverse
filter_segments_forward(verts, e, azimuth, azimuth_tol) ==
    Abs(VecAngle7(Sub(verts[e[2]], verts[e[1]]), TestVector(azimuth))) < Tol7(azimuth_tol)

\* the verdict for one row of edges
filter_segments_orientation(verts, e, azimuth, azimuth_tol) ==
    LET angles == VecAngle7(Sub(verts[e[2]], verts[e[1]]), TestVector(azimuth))
    IN  \/ Abs(angles) < Tol7(azimuth_tol)
        \/ Abs(angles - Pi7) < Tol7(azimuth_tol)

\* "or" taken for "and": the orientation filter runs when either option is
\* set, a missing azimuth standing for 0 and a missing tolerance for 30 degrees
CandidateEdgesEither(verts, prts, prm, simplices) ==
    LET sorted == SortEdges(verts, UniqueEdges(simplices))
        near   == IF IsNone(prm.max_distance) THEN sorted
                  ELSE SelectSeq(sorted, LAMBDA e : WithinDistance(verts, e, prm.max_distance))
        crossp == SelectSeq(near, LAMBDA e : CrossParts(prts, e))
        az     == IF IsNone(prm.azimuth) THEN 0 ELSE Val(prm.azimuth)
        tol    == IF IsNone(prm.azimuth_tol) THEN 300 ELSE Val(prm.azimuth_tol)
    IN  IF ~IsNone(prm.azimuth) \/ ~IsNone(prm.azimuth_tol)
        THEN SelectSeq(crossp, LAMBDA e : filter_segments_orientation(verts, e, az, tol))
        ELSE crossp

\* the candidate edge list of find_curves, lines 167-191
CandidateEdges(verts, prts, prm, simplices) ==
    LET sorted == SortEdges(verts, UniqueEdges(simplices))
        near   == IF IsNone(prm.max_distance) THEN sorted
                  ELSE SelectSeq(sorted, LAMBDA e : WithinDistance(verts, e, prm.max_distance))
        crossp == SelectSeq(near, LAMBDA e : CrossParts(prts, e))
    IN  IF ~IsNone(prm.azimuth) /\ ~IsNone(prm.azimuth_tol)
        THEN SelectSeq(crossp, LAMBDA e :
                filter_segments_orientation(verts, e, Val(prm.azimuth), Val(prm.azimuth_tol)))
        ELSE crossp

\* np.all in place of np.any: both endpoints of the edge are not visited yet
BothFree(msk, e) == msk[e[1]] /\ msk[e[2]]

\* the test left out: every edge of the list starts a path
AlwaysFree(msk, e) == TRUE

\* np.any(mask[edges[ind]]): an endpoint of the edge is not visited yet
AnyFree(msk, e) == msk[e[1]] \/ msk[e[2]]

\* the length test left out
TooShortNever(pth, min_edges) == FALSE

\* len(path) < params.min_edges
TooShort(pth, min_edges) == Len(pth) < min_edges

\* ------------------------------------------------------------- walk_edges
\* the lower comparison taken non-strict: damping 0 is refused
DampingInvalidStrict(damping) == damping <= 0 \/ damping > 2

\* damping is held in halves: the value d stands for the damping d / 2
DampingInvalid(damping) == damping < 0 \/ damping > 2

\* the far endpoint of an edge seen from point p
Other(e, p) == IF e[1] = p THEN e[2] ELSE e[1]

\* the two tests joined by "or": rows that touch the terminal point or have an
\* unvisited endpoint
NeighboursLoose(edges, incoming, mask) ==
    SelectSeq(edges, LAMBDA e :
        (e[1] = incoming[2] \/ e[2] = incoming[2]) \/ (mask[e[1]] \/ mask[e[2]]))

\* rows of edges that touch the terminal point and have an unvisited endpoint
Neighbours(edges, incoming, mask) ==
    SelectSeq(edges, LAMBDA e :
        (e[1] = incoming[2] \/ e[2] = incoming[2]) /\ (mask[e[1]] \/ mask[e[2]]))

InVec(verts, incoming) == Sub(verts[incoming[2]], verts[incoming[1]])
OutVec(verts, incoming, c) == Sub(verts[c], verts[incoming[2]])

\* the comparison taken non-strict: a candidate at a right angle is let through
ForwardOrSideways(edges, verts, incoming, mask) ==
    LET nb == Neighbours(edges, incoming, mask)
        candidates == [k \in 1..Len(nb) |-> Other(nb[k], incoming[2])]
    IN  SelectSeq(candidates, LAMBDA c :
            Dot(InVec(verts, incoming), OutVec(verts, incoming, c)) >= 0)

\* "any" taken for "all": the walk stops as soon as one candidate is not forward
ForwardAllOrNothing(edges, verts, incoming, mask) ==
    LET nb == Neighbours(edges, incoming, mask)
        candidates == [k \in 1..Len(nb) |-> Other(nb[k], incoming[2])]
    IN  IF \E k \in 1..Len(candidates) :
                Dot(InVec(verts, incoming), OutVec(verts, incoming, candidates[k])) <= 0
        THEN <<>>
        ELSE candidates

\* outgoing candidate nodes with dot > 0, in the order of the edge list
Forward(edges, verts, incoming, mask) ==
    LET nb == Neighbours(edges, incoming, mask)
        candidates == [k \in 1..Len(nb) |-> Other(nb[k], incoming[2])]
    IN  SelectSeq(candidates, LAMBDA c :
            Dot(InVec(verts, incoming), OutVec(verts, incoming, c)) > 0)

\* np.arccos(dot / (|in| |v|) - 1e-10) in units of 1e-5 rad, for dot > 0; the
\* 1e-10 makes the angle of a straight continuation 1.4e-5 rad
Angle5(u, v) ==
    IF u[1] * v[2] - u[2] * v[1] = 0 THEN 1 ELSE VecAngle7(u, v) \div 100

\* the exponent left out: angle * length whatever the damping
TorqueNoDamping(damping, u, v) == Angle5(u, v) * Norm1000(v)

\* the angle left out: length whatever the damping
TorqueNoAngle(damping, u, v) == Norm2(v)

\* angle ** (1 - damping) * vec_lengths, up to a monotone change of scale:
\* damping 0: angle * length; damping 1/2: its square, angle * length^2;
\* damping 1: length, as its square
Torque(damping, u, v) ==
    IF damping = 0 THEN Angle5(u, v) * Norm1000(v)
    ELSE IF damping = 1 THEN Angle5(u, v) * Norm2(v)
    ELSE Norm2(v)

\* np.argmin: the first position of the least torque
ArgMin(damping, verts, incoming, cands) ==
    CHOOSE k \in 1..Len(cands) :
        LET t(j) == Torque(damping, InVec(verts, incoming), OutVec(verts, incoming, cands[j]))
        IN  /\ \A j \in 1..Len(cands) : t(k) <= t(j)
            /\ \A j \in 1..(k - 1) : t(j) > t(k)

\* ------------------------------------------------------------- state
VARIABLES
    vertices,    \* entity.vertices: point index -> grid point
    parts,       \* TrendLinesDriver.parts: point index -> part id
    labels,      \* TrendLinesDriver.labels: point index -> group label
    params,      \* params.detection (TrendLineDetectionParameters)
    delaunay,    \* the result of Delaunay for the points of each label value
    pc,          \* position of the run
    values,      \* label values the loop of get_connections has still to visit
    value,       \* the label value of the current group
    path_list,   \* get_connections: edges collected so far (global indices)
    out_labels,  \* get_connections: label per input point
    ind,         \* get_connections: global indices of the group's points
    edges,       \* find_curves: candidate edge list (indices into the group)
    mask,        \* find_curves: TRUE = point not visited yet
    out_curves,  \* find_curves: kept paths
    seed,        \* find_curves: loop index into edges (0-based)
    path,        \* the path being walked
    incoming,    \* walk_edges: incoming edge
    back,        \* TRUE during the second (backward) walk_edges call
    result,      \* what get_connections returned
    curve,       \* what make_curve returned
    prev,        \* history: incoming and mask of the walk_edges call that
                 \* appended the last edge of path (None: nothing appended yet)
    walked,      \* history: every path the current find_curves call has
                 \* finished walking, kept or not
    run,         \* history: number of the current run of make_curve
    first        \* history: the outcome of the first run

inputs == <<vertices, parts, labels, params, delaunay>>
driver == <<values, value, path_list, out_labels, ind, result, curve>>
finder == <<edges, mask, out_curves, seed>>
walker == <<path, incoming, back>>
history == <<walked, run, first>>
vars == <<inputs, pc, driver, finder, walker, prev, history>>

\* the arrays handed to find_curves: self.vertices[ind, :2], self.parts[ind]
Local(arr, group) == [i \in 0..(Len(group) - 1) |-> arr[group[i + 1]]]

\* np.where(self.labels == v)[0]
Group(lab, v) == Ascending({i \in DOMAIN lab : lab[i] = v})

\* ------------------------------------------------------------- inputs
\* vertices listed in ascending coordinate order
VertexArrays == {f \in [Idx -> Coords] : \A i \in Idx \ {0} : Lex(f[i - 1], f[i])}

\* part ids numbered from 0 in order of first appearance
PartArrays ==
    {f \in [Idx -> Idx] :
        /\ f[0] = 0
        /\ \A i \in Idx \ {0} : \E j \in 0..(i - 1) : f[i] <= f[j] + 1}

Dampings == {-1, 0, 1, 2, 3}

\* TrendLineDetectionParameters: every damping and min_edges without filter,
\* and the distance and azimuth filters with the default damping and min_edges
Detections ==
    [azimuth : {None}, azimuth_tol : {None}, damping : Dampings,
     min_edges : 1..MaxMinEdges, max_distance : {None}]
    \cup [azimuth : {None}, azimuth_tol : {None}, damping : {0},
          min_edges : {1}, max_distance : {Some(1), Some(2)}]
    \cup [azimuth : {Some(0), Some(90)}, azimuth_tol : {Some(300)}, damping : {0},
          min_edges : {1}, max_distance : {None}]

\* a result of the library for every group of two or more points (the driver
\* never asks for the one of label 0)
Triangulations(verts, lab) ==
    LET vals == {v \in {lab[i] : i \in DOMAIN lab} : Len(Group(lab, v)) >= 2}
        outcome(v) == DelaunayOutcomes(Local(verts, Group(lab, v)))
    IN  {f \in [vals -> UNION {outcome(v) : v \in vals}] : \A v \in vals : f[v] \in outcome(v)}

Locals ==
    /\ pc = "start"
    /\ values = <<>>
    /\ value = 0
    /\ path_list = <<>>
    /\ out_labels = [i \in DOMAIN labels |-> 0]
    /\ ind = <<>>
    /\ edges = <<>>
    /\ mask = <<>>
    /\ out_curves = <<>>
    /\ seed = 0
    /\ path = <<>>
    /\ incoming = <<>>
    /\ back = FALSE
    /\ result = None
    /\ curve = None
    /\ prev = None
    /\ walked = <<>>
    /\ run = 1
    /\ first = None

\* no data given: labels = np.ones_like(self.parts)
Init ==
    /\ vertices \in VertexArrays
    /\ labels = [i \in Idx |-> 1]
    /\ delaunay \in Triangulations(vertices, labels)
    /\ parts \in PartArrays
    /\ params \in Detections
    /\ Locals

\* data given: any labels; no parts given: parts = np.arange(n)
InitDriver ==
    /\ vertices \in VertexArrays
    /\ labels \in [Idx -> 0..MaxLabel]
    /\ delaunay \in Triangulations(vertices, labels)
    /\ parts = [i \in Idx |-> i]
    /\ params \in [azimuth : {None}, azimuth_tol : {None}, damping : {0, 3},
                    min_edges : 1..MaxMinEdges, max_distance : {None}]
    /\ Locals

\* the inputs of a driver that is run twice
InitTwice ==
    /\ vertices \in VertexArrays
    /\ labels = [i \in Idx |-> 1]
    /\ delaunay \in Triangulations(vertices, labels)
    /\ parts \in PartArrays
    /\ params \in [azimuth : {None}, azimuth_tol : {None}, damping : {0, 2, 3},
                    min_edges : 1..MaxMinEdges, max_distance : {None}]
    /\ Locals

\* ------------------------------------------------------------- get_connections
\* path_list kept from the run before instead of starting empty
GetConnectionsStale ==
    /\ pc = "start"
    /\ path_list' = path_list
    /\ out_labels' = [i \in DOMAIN labels |-> 0]
    /\ values' = Ascending({labels[i] : i \in DOMAIN labels})
    /\ pc' = "loop"
    /\ UNCHANGED <<inputs, value, ind, result, curve, finder, walker, prev, history>>

\* make_curve calls get_connections: path_list, out_labels, np.unique(labels)
GetConnections ==
    /\ pc = "start"
    /\ path_list' = <<>>
    /\ out_labels' = [i \in DOMAIN labels |-> 0]
    /\ values' = Ascending({labels[i] : i \in DOMAIN labels})
    /\ pc' = "loop"
    /\ UNCHANGED <<inputs, value, ind, result, curve, finder, walker, prev, history>>

\* the test for the background label left out: only small groups are skipped
NextValueNoBackground ==
    /\ pc = "loop"
    /\ values # <<>>
    /\ LET v == Head(values)
           group == Group(labels, v)
       IN  IF Len(group) < 2
           THEN /\ values' = Tail(values)
                /\ UNCHANGED <<pc, value, ind>>
           ELSE /\ values' = Tail(values)
                /\ value' = v
                /\ ind' = group
                /\ pc' = "find"
    /\ UNCHANGED <<inputs, path_list, out_labels, result, curve, finder, walker, prev, history>>

\* one turn of the loop over the label values, up to the call of find_curves
NextValue ==
    /\ pc = "loop"
    /\ values # <<>>
    /\ LET v == Head(values)
           group == Group(labels, v)
       IN  IF v = 0 \/ Len(group) < 2
           THEN /\ values' = Tail(values)
                /\ UNCHANGED <<pc, value, ind>>
           ELSE /\ values' = Tail(values)
                /\ value' = v
                /\ ind' = group
                /\ pc' = "find"
    /\ UNCHANGED <<inputs, path_list, out_labels, result, curve, finder, walker, prev, history>>

\* the None test left out: indexing None raises
FindCurvesNoneRaises ==
    /\ pc = "find"
    /\ IsNone(delaunay[value])
    /\ pc' = "raised"
    /\ UNCHANGED <<inputs, driver, finder, walker, prev, history>>

\* find_curves when tri.simplices is None: return []
FindCurvesNone ==
    /\ pc = "find"
    /\ IsNone(delaunay[value])
    /\ out_curves' = <<>>
    /\ walked' = <<>>
    /\ pc' = "merge"
    /\ UNCHANGED <<inputs, driver, edges, mask, seed, walker, prev, run, first>>

\* the mask of the call before is taken again when it has the right length
FindCurvesSharedMask ==
    /\ pc = "find"
    /\ ~IsNone(delaunay[value])
    /\ edges' = CandidateEdges(Local(vertices, ind), Local(parts, ind),
                               params, Val(delaunay[value]))
    /\ mask' = IF DOMAIN mask = 0..(Len(ind) - 1) THEN mask ELSE [i \in 0..(Len(ind) - 1) |-> TRUE]
    /\ out_curves' = <<>>
    /\ seed' = 0
    /\ walked' = <<>>
    /\ pc' = "seed"
    /\ UNCHANGED <<inputs, driver, walker, prev, run, first>>

\* find_curves up to its loop: triangulation, candidate edges, fresh mask
FindCurves ==
    /\ pc = "find"
    /\ ~IsNone(delaunay[value])
    /\ edges' = CandidateEdges(Local(vertices, ind), Local(parts, ind),
                               params, Val(delaunay[value]))
    /\ mask' = [i \in 0..(Len(ind) - 1) |-> TRUE]
    /\ out_curves' = <<>>
    /\ seed' = 0
    /\ walked' = <<>>
    /\ pc' = "seed"
    /\ UNCHANGED <<inputs, driver, walker, prev, run, first>>

\* for ind in range(edges.shape[0]): neither endpoint is free, continue
SeedSkip ==
    /\ pc = "seed"
    /\ seed < Len(edges)
    /\ ~AnyFree(mask, edges[seed + 1])
    /\ seed' = seed + 1
    /\ UNCHANGED <<inputs, pc, driver, edges, mask, out_curves, walker, prev, history>>

\* the edge starts a path and the forward walk is called
SeedStart ==
    /\ pc = "seed"
    /\ seed < Len(edges)
    /\ LET e == edges[seed + 1]
       IN  /\ AnyFree(mask, e)
           /\ mask' = [mask EXCEPT ![e[1]] = FALSE, ![e[2]] = FALSE]
           /\ path' = <<e>>
           /\ incoming' = e
    /\ back' = FALSE
    /\ prev' = None
    /\ pc' = "walk"
    /\ UNCHANGED <<inputs, driver, edges, out_curves, seed, history>>

\* the loop is over: return out_curves
FindReturn ==
    /\ pc = "seed"
    /\ seed >= Len(edges)
    /\ pc' = "merge"
    /\ UNCHANGED <<inputs, driver, finder, walker, prev, history>>

\* ------------------------------------------------------------- walk_edges
\* raise ValueError("Damping must be between 0 and 1.")
WalkRaise ==
    /\ pc = "walk"
    /\ DampingInvalid(params.damping)
    /\ pc' = "raised"
    /\ UNCHANGED <<inputs, driver, finder, walker, prev, history>>

\* the appended point is not marked visited
WalkExtendNoMark ==
    /\ pc = "walk"
    /\ ~DampingInvalid(params.damping)
    /\ LET verts == Local(vertices, ind)
           cands == Forward(edges, verts, incoming, mask)
       IN  /\ cands # <<>>
           /\ LET sub_ind == ArgMin(params.damping, verts, incoming, cands)
                  outgoing == <<incoming[2], cands[sub_ind]>>
              IN  /\ mask' = mask
                  /\ path' = Append(path, outgoing)
                  /\ incoming' = outgoing
    /\ prev' = Some([incoming |-> incoming, mask |-> mask])
    /\ UNCHANGED <<inputs, pc, driver, edges, out_curves, seed, back, history>>

\* one call that finds a continuation, appends it and recurses
WalkExtend ==
    /\ pc = "walk"
    /\ ~DampingInvalid(params.damping)
    /\ LET verts == Local(vertices, ind)
           cands == Forward(edges, verts, incoming, mask)
       IN  /\ cands # <<>>
           /\ LET sub_ind == ArgMin(params.damping, verts, incoming, cands)
                  outgoing == <<incoming[2], cands[sub_ind]>>
              IN  /\ mask' = [mask EXCEPT ![cands[sub_ind]] = FALSE]
                  /\ path' = Append(path, outgoing)
                  /\ incoming' = outgoing
    /\ prev' = Some([incoming |-> incoming, mask |-> mask])
    /\ UNCHANGED <<inputs, pc, driver, edges, out_curves, seed, back, history>>

\* the second walk is called with the seed edge as it is, not reversed
WalkBackSameWay ==
    /\ pc = "walk"
    /\ ~DampingInvalid(params.damping)
    /\ Forward(edges, Local(vertices, ind), incoming, mask) = <<>>
    /\ ~back
    /\ back' = TRUE
    /\ incoming' = edges[seed + 1]
    /\ UNCHANGED <<inputs, pc, driver, finder, path, prev, history>>

\* the forward walk returns (no neighbour, or none with dot > 0) and the
\* backward walk is called with the reversed seed edge
WalkBack ==
    /\ pc = "walk"
    /\ ~DampingInvalid(params.damping)
    /\ Forward(edges, Local(vertices, ind), incoming, mask) = <<>>
    /\ ~back
    /\ back' = TRUE
    /\ incoming' = <<edges[seed + 1][2], edges[seed + 1][1]>>
    /\ UNCHANGED <<inputs, pc, driver, finder, path, prev, history>>

\* the backward walk returns
WalkDone ==
    /\ pc = "walk"
    /\ ~DampingInvalid(params.damping)
    /\ Forward(edges, Local(vertices, ind), incoming, mask) = <<>>
    /\ back
    /\ pc' = "keep"
    /\ UNCHANGED <<inputs, driver, finder, walker, prev, history>>

\* the points of a discarded path are given back as unvisited
PathDiscardRelease ==
    /\ pc = "keep"
    /\ TooShort(path, params.min_edges)
    /\ mask' = [i \in DOMAIN mask |->
                    mask[i] \/ \E k \in 1..Len(path) : i = path[k][1] \/ i = path[k][2]]
    /\ seed' = seed + 1
    /\ walked' = Append(walked, path)
    /\ pc' = "seed"
    /\ UNCHANGED <<inputs, driver, edges, out_curves, walker, prev, run, first>>

\* if len(path) < params.min_edges: continue
PathDiscard ==
    /\ pc = "keep"
    /\ TooShort(path, params.min_edges)
    /\ seed' = seed + 1
    /\ walked' = Append(walked, path)
    /\ pc' = "seed"
    /\ UNCHANGED <<inputs, driver, edges, mask, out_curves, walker, prev, run, first>>

\* out_curves.append(path)
PathKeep ==
    /\ pc = "keep"
    /\ ~TooShort(path, params.min_edges)
    /\ out_curves' = Append(out_curves, path)
    /\ seed' = seed + 1
    /\ walked' = Append(walked, path)
    /\ pc' = "seed"
    /\ UNCHANGED <<inputs, driver, edges, mask, walker, prev, run, first>>

\* ------------------------------------------------------------- back in the driver
\* np.vstack(segments): the edges of all paths, one after the other
RECURSIVE VStack(_)
VStack(segments) ==
    IF segments = <<>> THEN <<>> ELSE Head(segments) \o VStack(Tail(segments))

\* the test left out: the group is merged whatever find_curves returned
AnySegmentsAlways(segments) == TRUE

\* any(segments): some path was kept
AnySegments(segments) == segments # <<>>

\* if any(segments): path_list += ind[np.vstack(segments)]; out_labels[ind] = value
Merge ==
    /\ pc = "merge"
    /\ IF AnySegments(out_curves)
       THEN /\ path_list' = path_list \o
                    [k \in 1..Len(VStack(out_curves)) |->
                        <<ind[VStack(out_curves)[k][1] + 1], ind[VStack(out_curves)[k][2] + 1]>>]
            /\ out_labels' = [i \in DOMAIN out_labels |->
                    IF \E k \in 1..Len(ind) : ind[k] = i THEN value ELSE out_labels[i]]
       ELSE UNCHANGED <<path_list, out_labels>>
    /\ pc' = "loop"
    /\ UNCHANGED <<inputs, values, value, ind, result, curve, finder, walker, prev, history>>

\* np.unique(path.flatten())
UsedPoints(plist) == {plist[k][1] : k \in 1..Len(plist)} \cup {plist[k][2] : k \in 1..Len(plist)}

\* the new numbers counted from 1 instead of 0
NewIndicesFromOne(uni_ind) ==
    [i \in DOMAIN vertices |-> IF \E k \in 1..Len(uni_ind) : uni_ind[k] = i
                   THEN CHOOSE k \in 1..Len(uni_ind) : uni_ind[k] = i
                   ELSE 1]

\* new_indices: 1 everywhere, np.arange over the used points
NewIndices(uni_ind) ==
    [i \in DOMAIN vertices |-> IF \E k \in 1..Len(uni_ind) : uni_ind[k] = i
                   THEN (CHOOSE k \in 1..Len(uni_ind) : uni_ind[k] = i) - 1
                   ELSE 1]

\* the labels cut to the number of output vertices instead of taken at the
\* used points
FinishLabelsByPosition ==
    /\ pc = "loop"
    /\ values = <<>>
    /\ IF path_list # <<>>
       THEN LET uni_ind == Ascending(UsedPoints(path_list))
                new_indices == NewIndices(uni_ind)
            IN  result' = Some([
                    vertices |-> Local(vertices, uni_ind),
                    cells |-> Some([k \in 1..Len(path_list) |->
                        <<new_indices[path_list[k][1]], new_indices[path_list[k][2]]>>]),
                    labels |-> [k \in 0..(Len(uni_ind) - 1) |-> out_labels[k]]])
       ELSE result' = Some([vertices |-> vertices, cells |-> None, labels |-> out_labels])
    /\ pc' = "returned"
    /\ UNCHANGED <<inputs, values, value, path_list, out_labels, ind, curve, finder, walker, prev, history>>

\* the loop is over: truncate the vertices, renumber, return
Finish ==
    /\ pc = "loop"
    /\ values = <<>>
    /\ IF path_list # <<>>
       THEN LET uni_ind == Ascending(UsedPoints(path_list))
                new_indices == NewIndices(uni_ind)
            IN  result' = Some([
                    vertices |-> Local(vertices, uni_ind),
                    cells |-> Some([k \in 1..Len(path_list) |->
                        <<new_indices[path_list[k][1]], new_indices[path_list[k][2]]>>]),
                    labels |-> Local(out_labels, uni_ind)])
       ELSE result' = Some([vertices |-> vertices, cells |-> None, labels |-> out_labels])
    /\ pc' = "returned"
    /\ UNCHANGED <<inputs, values, value, path_list, out_labels, ind, curve, finder, walker, prev, history>>

\* make_curve after get_connections: no cells, return None; else Curve.create
MakeCurve ==
    /\ pc = "returned"
    /\ IF IsNone(Val(result).cells)
       THEN curve' = None
       ELSE curve' = Some([vertices |-> Val(result).vertices,
                           cells |-> Val(Val(result).cells),
                           values |-> Val(result).labels])
    /\ pc' = "done"
    /\ UNCHANGED <<inputs, values, value, path_list, out_labels, ind, result, finder, walker, prev, history>>

Next ==
    \/ GetConnections
    \/ NextValue
    \/ FindCurvesNone
    \/ FindCurves
    \/ SeedSkip
    \/ SeedStart
    \/ FindReturn
    \/ WalkRaise
    \/ WalkExtend
    \/ WalkBack
    \/ WalkDone
    \/ PathDiscard
    \/ PathKeep
    \/ Merge
    \/ Finish
    \/ MakeCurve

Spec == Init /\ [][Next]_vars

SpecDriver == InitDriver /\ [][Next]_vars

\* a few inputs for the runs checked under fairness: one point in every column
\* of the grid, the first on the bottom row, every point its own part, no
\* filter; damping 1 (the continuation is chosen by length alone) or an invalid
\* damping
InitLive ==
    /\ vertices \in {f \in VertexArrays : f[0][2] = 0 /\ \A i \in Idx : f[i][1] = i}
    /\ labels = [i \in Idx |-> 1]
    /\ delaunay \in Triangulations(vertices, labels)
    /\ parts = [i \in Idx |-> i]
    /\ params \in [azimuth : {None}, azimuth_tol : {None}, damping : {2},
                    min_edges : {MaxMinEdges}, max_distance : {None}]
            \cup [azimuth : {None}, azimuth_tol : {None}, damping : {3},
                  min_edges : {1}, max_distance : {None}]
    /\ Locals

\* the program is one thread that always takes its next step
SpecLive == InitLive /\ [][Next]_vars /\ WF_vars(Next)

\* the same driver object and the same parameters are run a second time
Rerun ==
    /\ pc = "done"
    /\ run = 1
    /\ run' = 2
    /\ first' = Some([result |-> result, curve |-> curve, path_list |-> path_list,
                      out_curves |-> out_curves])
    /\ pc' = "start"
    /\ UNCHANGED <<inputs, driver, finder, walker, prev, walked>>

NextTwice == Next \/ Rerun

SpecTwice == InitTwice /\ [][NextTwice]_vars

\* ------------------------------------------------------------- the same points in another order
\* find_curves expressed by point identity: every edge as its two coordinates
CurvesByCoords ==
    [p \in 1..Len(out_curves) |->
        [k \in 1..Len(out_curves[p]) |->
            <<vertices[ind[out_curves[p][k][1] + 1]], vertices[ind[out_curves[p][k][2] + 1]]>>]]

\* the rows i and j of an array exchanged
Swap(arr, i, j) ==
    [k \in DOMAIN arr |-> IF k = i THEN arr[j] ELSE IF k = j THEN arr[i] ELSE arr[k]]

\* the same triangles over the renumbered points
SwapSimplices(o, i, j) ==
    IF IsNone(o) THEN None
    ELSE Some({{(IF k = i THEN j ELSE IF k = j THEN i ELSE k) : k \in t} : t \in Val(o)})

\* every damping, no filter
InitPermuted ==
    /\ vertices \in VertexArrays
    /\ labels = [i \in Idx |-> 1]
    /\ delaunay \in Triangulations(vertices, labels)
    /\ parts \in PartArrays
    /\ params \in [azimuth : {None}, azimuth_tol : {None}, damping : {0, 1, 2, 3},
                    min_edges : 1..MaxMinEdges, max_distance : {None}]
    /\ Locals

\* the run is repeated with two rows of vertices and parts exchanged together
\* (np.random.shuffle of the data rows); the triangulation is the same set of
\* triangles
RerunPermuted ==
    /\ pc = "done"
    /\ run = 1
    /\ \E i \in Idx : \E j \in Idx :
        /\ i < j
        /\ vertices' = Swap(vertices, i, j)
        /\ parts' = Swap(parts, i, j)
        /\ delaunay' = [v \in DOMAIN delaunay |-> SwapSimplices(delaunay[v], i, j)]
    /\ run' = 2
    /\ first' = Some([curves |-> CurvesByCoords])
    /\ pc' = "start"
    /\ UNCHANGED <<labels, params, driver, finder, walker, prev, walked>>

NextPermuted == Next \/ RerunPermuted

SpecPermuted == InitPermuted /\ [][NextPermuted]_vars

\* ------------------------------------------------------------- the same parts under other ids
\* injective changes of the part ids: parts + 1, and two ids exchanged
Relabellings ==
    {[p \in Idx |-> p + 1]} \cup
    {[p \in Idx |-> IF p = a THEN b ELSE IF p = b THEN a ELSE p] : a \in Idx, b \in Idx \ {0}}

\* the run is repeated with the part array relabelled
RerunRelabelled ==
    /\ pc = "done"
    /\ run = 1
    /\ \E f \in Relabellings : parts' = [i \in Idx |-> f[parts[i]]]
    /\ run' = 2
    /\ first' = Some([out_curves |-> out_curves, result |-> result])
    /\ pc' = "start"
    /\ UNCHANGED <<vertices, labels, params, delaunay, driver, finder, walker, prev, walked>>

NextRelabelled == Next \/ RerunRelabelled

SpecRelabelled == InitPermuted /\ [][NextRelabelled]_vars

\* ------------------------------------------------------------- two groups, one of them changed
\* the edges get_connections collected for the group of label g
GroupEdges(g) == SelectSeq(path_list, LAMBDA e : labels[e[1]] = g)

\* get_connections skips label 0 and never triangulates its points: one
\* outcome stands for all the library could give for them
BackgroundFixed(f, verts, lab) ==
    0 \in DOMAIN f =>
        f[0] = CHOOSE o \in DelaunayOutcomes(Local(verts, Group(lab, 0))) : TRUE

\* three points carry the last label; of the others at most one is background
\* (label 0), the rest carry a smaller label: with fewer the other group has
\* no three points in either run and nothing to triangulate. No parts given:
\* parts = np.arange(n). Damping 0 with the largest min_edges, or an invalid
\* damping with min_edges 1.
InitGroups ==
    /\ vertices \in {f \in [0..(GroupPoints - 1) -> Coords] :
                        \A i \in 1..(GroupPoints - 1) : Lex(f[i - 1], f[i])}
    /\ labels \in {l \in [0..(GroupPoints - 1) -> 0..MaxLabel] :
                        /\ Cardinality({i \in DOMAIN l : l[i] = MaxLabel}) = 3
                        /\ Cardinality({i \in DOMAIN l : l[i] = 0}) <= 1}
    /\ delaunay \in {f \in Triangulations(vertices, labels) :
                        BackgroundFixed(f, vertices, labels)}
    /\ parts = [i \in 0..(GroupPoints - 1) |-> i]
    /\ params \in [azimuth : {None}, azimuth_tol : {None}, damping : {0},
                    min_edges : {MaxMinEdges}, max_distance : {None}]
                \cup [azimuth : {None}, azimuth_tol : {None}, damping : {3},
                      min_edges : {1}, max_distance : {None}]
    /\ Locals

\* the run is repeated after a point outside the last group got another label
\* (0: it is left out; another group: it is added there) or another position;
\* the last group and its triangulation stay as they were
RerunOthers ==
    /\ pc = "done"
    /\ run = 1
    /\ \E i \in DOMAIN labels :
        /\ labels[i] # MaxLabel
        /\ \/ /\ \E l \in (0..(MaxLabel - 1)) \ {labels[i]} : labels' = [labels EXCEPT ![i] = l]
              /\ vertices' = vertices
           \/ /\ \E c \in Coords \ {vertices[k] : k \in DOMAIN vertices} :
                    vertices' = [vertices EXCEPT ![i] = c]
              /\ labels' = labels
    /\ delaunay' \in {f \in Triangulations(vertices', labels') :
                        /\ f[MaxLabel] = delaunay[MaxLabel]
                        /\ BackgroundFixed(f, vertices', labels')}
    /\ run' = 2
    /\ first' = Some([out_curves |-> out_curves, edges |-> GroupEdges(MaxLabel),
                      path_list |-> path_list])
    /\ pc' = "start"
    /\ UNCHANGED <<parts, params, driver, finder, walker, prev, walked>>

NextGroups == Next \/ RerunOthers

SpecGroups == InitGroups /\ [][NextGroups]_vars

\* ------------------------------------------------------------- one of azimuth and azimuth_tol
\* exactly one of azimuth and azimuth_tol is set
InitHalf ==
    /\ vertices \in VertexArrays
    /\ labels = [i \in Idx |-> 1]
    /\ delaunay \in Triangulations(vertices, labels)
    /\ parts \in PartArrays
    /\ params \in [azimuth : {Some(0), Some(90)}, azimuth_tol : {None}, damping : {0, 3},
                    min_edges : 1..MaxMinEdges, max_distance : {None}]
            \cup [azimuth : {None}, azimuth_tol : {Some(300)}, damping : {0, 3},
                  min_edges : 1..MaxMinEdges, max_distance : {None}]
    /\ Locals

\* the run is repeated with both options unset
RerunUnset ==
    /\ pc = "done"
    /\ run = 1
    /\ params' = [params EXCEPT !.azimuth = None, !.azimuth_tol = None]
    /\ run' = 2
    /\ first' = Some([out_curves |-> out_curves, result |-> result, curve |-> curve,
                      params |-> params])
    /\ pc' = "start"
    /\ UNCHANGED <<vertices, parts, labels, delaunay, driver, finder, walker, prev, walked>>

NextHalf == Next \/ RerunUnset

SpecHalf == InitHalf /\ [][NextHalf]_vars

\* ------------------------------------------------------------- PartsConnectionDriver
\* PartsConnectionDriver.get_connections (parts_connection/driver.py).  The
\* find_curves it calls takes min_edges, max_distance and damping and no
\* azimuth; it is run here as the find_curves above with those three
\* parameters.  The driver's local `path`, the list of paths returned by the
\* last call, is held in path_list.

\* data given with two label values, each carried by two points or more;
\* curve.parts: every point its own part, or two parts taken in turn
InitParts ==
    /\ vertices \in {f \in [0..(GroupPoints - 1) -> Coords] :
                        \A i \in 1..(GroupPoints - 1) : Lex(f[i - 1], f[i])}
    /\ labels \in {l \in [0..(GroupPoints - 1) -> 1..2] :
                        \A v \in 1..2 : Cardinality({i \in DOMAIN l : l[i] = v}) >= 2}
    /\ delaunay \in Triangulations(vertices, labels)
    /\ parts \in {[i \in 0..(GroupPoints - 1) |-> i], [i \in 0..(GroupPoints - 1) |-> i % 2]}
    /\ params \in [azimuth : {None}, azimuth_tol : {None}, damping : {0, 3},
                    min_edges : 1..MaxMinEdges, max_distance : {None}]
    /\ Locals

\* values = data.values; the loop is set up over np.unique(values)
PartsGetConnections ==
    /\ pc = "start"
    /\ values' = Ascending({labels[i] : i \in DOMAIN labels})
    /\ pc' = "loop"
    /\ UNCHANGED <<inputs, value, path_list, out_labels, ind, result, curve,
                   finder, walker, prev, history>>

\* for label in np.unique(values): ind = values == label; find_curves is called
PartsNextLabel ==
    /\ pc = "loop"
    /\ values # <<>>
    /\ values' = Tail(values)
    /\ value' = Head(values)
    /\ ind' = Group(labels, Head(values))
    /\ pc' = "find"
    /\ UNCHANGED <<inputs, path_list, out_labels, result, curve, finder, walker, prev, history>>

\* path = find_curves(...): the local is bound to what this call returned
PartsAssign ==
    /\ pc = "merge"
    /\ path_list' = out_curves
    /\ pc' = "loop"
    /\ UNCHANGED <<inputs, values, value, out_labels, ind, result, curve,
                   finder, walker, prev, history>>

\* return curve.vertices, path
PartsReturn ==
    /\ pc = "loop"
    /\ values = <<>>
    /\ result' = Some([vertices |-> vertices, cells |-> path_list])
    /\ pc' = "returned"
    /\ UNCHANGED <<inputs, values, value, path_list, out_labels, ind, curve,
                   finder, walker, prev, history>>

NextParts ==
    \/ PartsGetConnections
    \/ PartsNextLabel
    \/ FindCurvesNone
    \/ FindCurves
    \/ SeedSkip
    \/ SeedStart
    \/ FindReturn
    \/ WalkRaise
    \/ WalkExtend
    \/ WalkBack
    \/ WalkDone
    \/ PathDiscard
    \/ PathKeep
    \/ PartsAssign
    \/ PartsReturn

SpecParts == InitParts /\ [][NextParts]_vars

\* ------------------------------------------------------------- filter_segments_orientation called alone
\* the radial layout of test_filter_segments_orientation: a centre (index 0)
\* and 16 points every 22.5 degrees clockwise from north, (sin, cos) scaled by
\* 100 and rounded
SpokePoints ==
    LET ring == << <<0, 100>>, <<38, 92>>, <<71, 71>>, <<92, 38>>,
                   <<100, 0>>, <<92, -38>>, <<71, -71>>, <<38, -92>>,
                   <<0, -100>>, <<-38, -92>>, <<-71, -71>>, <<-92, -38>>,
                   <<-100, 0>>, <<-92, 38>>, <<-71, 71>>, <<-38, 92>> >>
    IN  [k \in 0..16 |-> IF k = 0 THEN <<0, 0>> ELSE ring[k]]

\* segments from the centre to every spoke, or from every spoke to the centre
SpokeSegments(outward) == [k \in 1..16 |-> IF outward THEN <<0, k>> ELSE <<k, 0>>]

\* the arguments of a direct call: the radial layout, or two grid points with
\* the segment between them listed in both directions
InitFilter ==
    /\ \/ /\ vertices = SpokePoints
          /\ edges \in {SpokeSegments(TRUE), SpokeSegments(FALSE)}
       \/ /\ vertices \in {f \in [0..1 -> Coords] : f[0] # f[1]}
          /\ edges = << <<0, 1>>, <<1, 0>> >>
    /\ params \in [azimuth : {Some(a) : a \in {-45, 0, 45, 90, 135, 180, 225, 270}},
                    azimuth_tol : {Some(1), Some(300), Some(3600)},
                    damping : {0}, min_edges : {1}, max_distance : {None}]
    /\ pc = "filter"
    /\ parts = <<>>
    /\ labels = <<>>
    /\ delaunay = <<>>
    /\ values = <<>>
    /\ value = 0
    /\ path_list = <<>>
    /\ out_labels = <<>>
    /\ ind = <<>>
    /\ mask = <<>>
    /\ out_curves = <<>>
    /\ seed = 0
    /\ path = <<>>
    /\ incoming = <<>>
    /\ back = FALSE
    /\ result = None
    /\ curve = None
    /\ prev = None
    /\ walked = <<>>
    /\ run = 1
    /\ first = None

\* filter_segments_orientation(vertices, edges, azimuth, azimuth_tol): the
\* boolean array it returns, one verdict per row of edges
FilterSegments ==
    /\ pc = "filter"
    /\ result' = Some([k \in 1..Len(edges) |->
            filter_segments_orientation(vertices, edges[k],
                                        Val(params.azimuth), Val(params.azimuth_tol))])
    /\ pc' = "filtered"
    /\ UNCHANGED <<inputs, values, value, path_list, out_labels, ind, curve,
                   finder, walker, prev, history>>

NextFilter == FilterSegments

SpecFilter == InitFilter /\ [][NextFilter]_vars

\* ------------------------------------------------------------- properties
\* find_curves has returned to get_connections
Returned == pc = "merge"

\* the points a path touches
Endpoints(pth) == {pth[k][1] : k \in 1..Len(pth)} \cup {pth[k][2] : k \in 1..Len(pth)}

\* a walk_edges call of the current path has appended an edge: prev holds what
\* the call was given and the last edge of path is the one it appended
StepTaken == pc \in {"walk", "keep"} /\ ~IsNone(prev)
Appended == path[Len(path)]
Terminal == Val(prev).incoming[2]

\* vector from the terminal point of that call to point c
StepVec(c) == Sub(vertices[ind[c + 1]], vertices[ind[Terminal + 1]])
\* direction of the incoming edge of that call
StepIn == Sub(vertices[ind[Terminal + 1]], vertices[ind[Val(prev).incoming[1] + 1]])

\* c was an eligible continuation for that call: a candidate edge joins it to
\* the terminal point, it was unvisited, and it lies strictly forward
Eligible(c) ==
    /\ \E k \in 1..Len(edges) : edges[k] = <<Terminal, c>> \/ edges[k] = <<c, Terminal>>
    /\ Val(prev).mask[c]
    /\ Dot(StepIn, StepVec(c)) > 0

EligibleSet == {c \in DOMAIN mask : Eligible(c)}

\* C1: every edge of every path find_curves returns, and every edge the driver
\* collects from it, joins two points of different parts.
C1_CrossPartEdges ==
    /\ Returned =>
        \A p \in 1..Len(out_curves) : \A k \in 1..Len(out_curves[p]) :
            parts[ind[out_curves[p][k][1] + 1]] # parts[ind[out_curves[p][k][2] + 1]]
    /\ pc \in {"returned", "done"} =>
        \A k \in 1..Len(path_list) : parts[path_list[k][1]] # parts[path_list[k][2]]

\* C1 witness: a returned path of two or more edges although two points of
\* one simplex share a part
C1_Witness ==
    /\ Returned
    /\ \E p \in 1..Len(out_curves) : Len(out_curves[p]) >= 2
    /\ \E t \in Val(delaunay[value]) : \E i \in t : \E j \in t \ {i} :
            parts[ind[i + 1]] = parts[ind[j + 1]]

\* C2: within one find_curves call no point is an endpoint of edges of two
\* different returned paths.
C2_OnePathPerPoint ==
    Returned =>
        \A p \in 1..Len(out_curves) : \A q \in 1..Len(out_curves) :
            p # q => Endpoints(out_curves[p]) \cap Endpoints(out_curves[q]) = {}

C4_ShortestAtFullDamping ==
    (StepTaken /\ params.damping = 2) =>
        \A c \in EligibleSet : Norm2(StepVec(Appended[2])) <= Norm2(StepVec(c))

\* C4 witness: at damping 1 a step had a longer eligible candidate that turns
\* less than the one appended
C4_Witness ==
    /\ StepTaken
    /\ params.damping = 2
    /\ \E c \in EligibleSet :
        /\ Norm2(StepVec(c)) > Norm2(StepVec(Appended[2]))
        /\ VecAngle7(StepIn, StepVec(c)) < VecAngle7(StepIn, StepVec(Appended[2]))

\* turning angle (1e-5 rad) times length (1e-3) of the continuation to c
TurnTimesLength(c) == (VecAngle7(StepIn, StepVec(c)) \div 100) * Norm1000(StepVec(c))

\* C5: with damping 0 the appended continuation minimises turning angle times
\* length over the eligible candidates of that step.
C5_LeastTorqueAtNoDamping ==
    (StepTaken /\ params.damping = 0) =>
        /\ Appended[2] \in EligibleSet
        /\ \A c \in EligibleSet : TurnTimesLength(Appended[2]) <= TurnTimesLength(c)

\* C5 witness: at damping 0 a step passed over a strictly shorter eligible
\* candidate
C5_Witness ==
    /\ StepTaken
    /\ params.damping = 0
    /\ \E c \in EligibleSet : Norm2(StepVec(c)) < Norm2(StepVec(Appended[2]))

\* C6: a second run of the same driver on the same inputs and configuration
\* ends with the same paths, vertices, edges and labels as the first.
C6_SecondRunSame ==
    (run = 2 /\ pc = "done") =>
        first = Some([result |-> result, curve |-> curve, path_list |-> path_list,
                      out_curves |-> out_curves])

\* C6 witness: a second run that ends with a curve of two or more edges
C6_Witness ==
    /\ run = 2
    /\ pc = "done"
    /\ ~IsNone(curve)
    /\ Len(path_list) >= 2

\* the triangulation handed back no simplices
NoSimplices(o) == IsNone(o) \/ Val(o) = {}

\* C7: no run with a damping outside [0, 1] completes and returns a result,
\* whatever the number of candidate edges (stated for runs whose points were
\* triangulated into simplices).
C7_InvalidDampingNeverReturns ==
    ((params.damping < 0 \/ params.damping > 2)
        /\ \A v \in DOMAIN delaunay : ~NoSimplices(delaunay[v]))
    => pc \notin {"returned", "done"}

\* C8: when no group yields a kept path get_connections returns the input
\* vertices, None as edges and all-zero labels, and make_curve returns None.
C8_NoPathsOutcome ==
    (pc \in {"returned", "done"} /\ path_list = <<>>) =>
        /\ result = Some([vertices |-> vertices, cells |-> None,
                          labels |-> [i \in Idx |-> 0]])
        /\ curve = None

\* C8 witness: the run ends without a curve although a group had candidate
\* edges and paths were walked
C8_Witness ==
    /\ pc = "done"
    /\ path_list = <<>>
    /\ curve = None
    /\ edges # <<>>
    /\ walked # <<>>

\* C9: when the triangulation yields no simplices find_curves has no candidate
\* edge, walks nothing, raises nothing and returns an empty list.
C9_NoSimplicesEmptyResult ==
    (pc \in {"seed", "walk", "keep", "raised", "merge"} /\ NoSimplices(delaunay[value])) =>
        /\ pc \in {"seed", "merge"}
        /\ out_curves = <<>>
        /\ pc = "seed" => edges = <<>>

\* C9 witness: find_curves has returned for a group of exactly two points
\* whose triangulation has no simplices
C9_Witness ==
    /\ Returned
    /\ Len(ind) = 2
    /\ NoSimplices(delaunay[value])

\* a group the loop of get_connections does not search
Skipped(v) == v = 0 \/ Cardinality({i \in Idx : labels[i] = v}) < 2

\* C10: lack of results is never an exception: the only exception is the
\* damping error of a walk; find_curves returns an empty list when no candidate
\* edge is left or when no walked path reaches min_edges; a group of fewer than
\* 2 points adds nothing and the loop goes on to the next label value.
C10_State ==
    /\ pc = "raised" => (params.damping < 0 \/ params.damping > 2) /\ edges # <<>>
    /\ (Returned /\ ~IsNone(delaunay[value]) /\ edges = <<>>) => out_curves = <<>>
    /\ (Returned /\ \A w \in 1..Len(walked) : Len(walked[w]) < params.min_edges)
            => out_curves = <<>>
    /\ pc \in {"returned", "done"} =>
            \A i \in Idx : Skipped(labels[i]) =>
                out_labels[i] = 0 /\ i \notin UsedPoints(path_list)

C10_Step ==
    (pc = "loop" /\ values # <<>> /\ Skipped(Head(values))) =>
        /\ pc' = "loop"
        /\ values' = Tail(values)
        /\ UNCHANGED <<path_list, out_labels>>

Compass(v) ==
    IF v[1] = 0 THEN (IF v[2] > 0 THEN 0 ELSE 1800)
    ELSE IF v[2] = 0 THEN (IF v[1] > 0 THEN 900 ELSE 2700)
    ELSE IF v[1] > 0 THEN (IF v[2] > 0 THEN 450 ELSE 1350)
    ELSE (IF v[2] > 0 THEN 3150 ELSE 2250)

\* direction of row k of edges in tenths of a degree, where it is known exactly:
\* a spoke of the radial layout, or a grid segment along an axis or a diagonal
Known(k) ==
    LET v == Sub(vertices[edges[k][2]], vertices[edges[k][1]])
    IN  Len(edges) = 16 \/ v[1] = 0 \/ v[2] = 0 \/ Abs(v[1]) = Abs(v[2])

Bearing(k) ==
    IF Len(edges) = 16
    THEN (IF edges[k][1] = 0 THEN 225 * (k - 1) ELSE 225 * (k - 1) + 1800)
    ELSE Compass(Sub(vertices[edges[k][2]], vertices[edges[k][1]]))

\* the angle in [0, 180] degrees between row k and the azimuth, in tenths
Off(k) ==
    LET a == (Bearing(k) - 10 * Val(params.azimuth)) % 3600
    IN  IF a > 1800 THEN 3600 - a ELSE a

Kept == {k \in 1..Len(edges) : Val(result)[k]}

\* C11: a row is kept exactly when its direction is within the tolerance of
\* the azimuth or of its opposite; a row and its reverse get the same verdict;
\* of the 16 spokes at azimuth 0, tolerance 0.1 keeps those at 0 and 180 and
\* tolerance 30 keeps those at 0, 22.5, 157.5, 180, 202.5 and 337.5.
C11_OrientationVerdict ==
    pc = "filtered" =>
        /\ \A k \in 1..Len(edges) : Known(k) =>
                (k \in Kept <=> (Off(k) < Val(params.azimuth_tol)
                                    \/ 1800 - Off(k) < Val(params.azimuth_tol)))
        /\ \A k \in 1..Len(edges) : \A j \in 1..Len(edges) :
                edges[k] = <<edges[j][2], edges[j][1]>> => (k \in Kept <=> j \in Kept)
        /\ (Len(edges) = 16 /\ params.azimuth = Some(0) /\ params.azimuth_tol = Some(1))
                => Kept = {1, 9}
        /\ (Len(edges) = 16 /\ params.azimuth = Some(0) /\ params.azimuth_tol = Some(300))
                => Kept = {1, 2, 8, 9, 10, 16}

\* C11 witness: the 16 spokes filtered at azimuth 0 with tolerance 30, six kept
C11_Witness ==
    /\ pc = "filtered"
    /\ edges = SpokeSegments(TRUE)
    /\ params.azimuth = Some(0)
    /\ params.azimuth_tol = Some(300)
    /\ Cardinality(Kept) = 6

\* the input points that are vertices of what get_connections returned
OutputPoints == {i \in Idx : \E k \in DOMAIN Val(result).vertices : Val(result).vertices[k] = vertices[i]}

\* no background point is an output vertex and no output vertex has label 0
NoBackgroundOutput ==
    /\ \A i \in Idx : labels[i] = 0 => i \notin OutputPoints \cup UsedPoints(path_list)
    /\ \A k \in DOMAIN Val(result).labels : Val(result).labels[k] # 0

\* C12 as stated: whatever get_connections returns, no point of label 0 is an
\* endpoint of an output edge or an output vertex, and every output vertex
\* carries a non-zero label.
C12_NoBackgroundEver ==
    pc \in {"returned", "done"} => NoBackgroundOutput

\* C12 amended: the same whenever get_connections returns edges, that is when
\* at least one path was kept (with no path it returns the input vertices and
\* all-zero labels).
C12_NoBackgroundInCurve ==
    (pc \in {"returned", "done"} /\ ~IsNone(Val(result).cells)) => NoBackgroundOutput

\* C12 witness: a curve was made from a group of three points while the
\* fourth point carries label 0
C12_Witness ==
    /\ pc = "done"
    /\ ~IsNone(curve)
    /\ \E i \in Idx : labels[i] = 0

\* a curve as the set of its edges, an edge as the set of its two points
EdgeSets(curves) ==
    {{{curves[p][k][1], curves[p][k][2]} : k \in 1..Len(curves[p])} : p \in 1..Len(curves)}

\* how many curves have n edges
CountOfLength(curves, n) == Cardinality({p \in 1..Len(curves) : Len(curves[p]) = n})

\* C13: with the rows of vertices and parts permuted together find_curves
\* returns the same curves by point identity, hence the same number of curves
\* and the same edge count per curve.
C13_OrderIndependent ==
    (run = 2 /\ pc = "done") =>
        /\ EdgeSets(CurvesByCoords) = EdgeSets(Val(first).curves)
        /\ Len(CurvesByCoords) = Len(Val(first).curves)
        /\ \A n \in 1..NPoints :
                CountOfLength(CurvesByCoords, n) = CountOfLength(Val(first).curves, n)

\* C14: with the part ids relabelled injectively find_curves returns
\* identical curves and the driver the same vertices, edges and labels.
C14_PartIdsByEquality ==
    (run = 2 /\ pc = "done") =>
        first = Some([out_curves |-> out_curves, result |-> result])

\* C14 witness: the second run ends with a curve, the first point's part id is
\* no longer 0, and two points share a part
C14_Witness ==
    /\ run = 2
    /\ pc = "done"
    /\ ~IsNone(curve)
    /\ parts[0] # 0
    /\ \E i \in Idx : \E j \in Idx \ {i} : parts[i] = parts[j]

\* C15: every find_curves call starts with an all-unvisited mask over its
\* group, and the paths of a group are the same after points of other labels
\* were added, left out or moved.
C15_GroupsIndependent ==
    /\ (pc = "seed" /\ seed = 0) => mask = [i \in 0..(Len(ind) - 1) |-> TRUE]
    /\ (run = 2 /\ pc = "done") =>
            /\ out_curves = Val(first).out_curves
            /\ GroupEdges(MaxLabel) = Val(first).edges

\* C15 witness: the last group has a path in both runs although the edges
\* collected from the other groups changed
C15_Witness ==
    /\ run = 2
    /\ pc = "done"
    /\ out_curves # <<>>
    /\ Len(Val(first).path_list) > Len(Val(first).edges)
    /\ Len(path_list) # Len(Val(first).path_list)

\* C16: a candidate edge starts a path only if both of its endpoints are
\* unvisited when the loop reaches it; with one or both visited it is skipped.
C16_SeedNeedsBothFree ==
    [][(pc = "seed" /\ pc' = "walk") =>
            (mask[edges[seed + 1][1]] /\ mask[edges[seed + 1][2]])]_vars

\* squared length of a candidate edge of the current find_curves call
Length2(e) == Dist2(Local(vertices, ind), e)

\* C17: while find_curves loops, the filtered candidate list is in
\* non-decreasing order of length, the path being walked was seeded by the
\* edge at the loop position, and the paths walked so far were seeded in
\* non-decreasing order of length.
C17_State ==
    pc \in {"seed", "walk", "keep"} =>
        /\ \A k \in 1..(Len(edges) - 1) : Length2(edges[k]) <= Length2(edges[k + 1])
        /\ pc \in {"walk", "keep"} => path[1] = edges[seed + 1]
        /\ \A w \in 1..(Len(walked) - 1) : Length2(walked[w][1]) <= Length2(walked[w + 1][1])

\* the loop position moves one edge at a time and never back
C17_Step ==
    pc \in {"seed", "walk", "keep"} => (seed' = seed \/ seed' = seed + 1)

C17_SeedsByLength == []C17_State /\ [][C17_Step]_vars

\* C17 witness: a distance or azimuth filter is set and two paths were walked,
\* the second from a strictly longer seed
C17_Witness ==
    /\ pc = "seed"
    /\ (~IsNone(params.max_distance) \/ ~IsNone(params.azimuth))
    /\ Len(walked) >= 2
    /\ Length2(walked[1][1]) < Length2(walked[2][1])

\* the edges of the triangulation of the current group that pass the part and
\* azimuth filters
OtherwiseKept ==
    {e \in UniqueEdges(Val(delaunay[value])) :
        /\ parts[ind[e[1] + 1]] # parts[ind[e[2] + 1]]
        /\ (IsNone(params.azimuth) \/ IsNone(params.azimuth_tol)
             \/ filter_segments_orientation(Local(vertices, ind), e,
                                            Val(params.azimuth), Val(params.azimuth_tol)))}

CandidateSet == {edges[k] : k \in 1..Len(edges)}

\* the square of max_distance
Max2 == Val(params.max_distance) * Val(params.max_distance)

\* C18: with max_distance set no candidate edge is longer and an edge of
\* exactly that length is kept; with max_distance unset no edge is dropped for
\* its length.
C18_MaxDistance ==
    pc \in {"seed", "walk", "keep"} =>
        IF IsNone(params.max_distance)
        THEN CandidateSet = OtherwiseKept
        ELSE /\ \A e \in CandidateSet : Length2(e) <= Max2
             /\ \A e \in OtherwiseKept : Length2(e) = Max2 => e \in CandidateSet
             /\ \A e \in OtherwiseKept : Length2(e) < Max2 => e \in CandidateSet

\* C18 witness: max_distance is set, a candidate has exactly that length and
\* a longer edge of the triangulation was dropped
C18_Witness ==
    /\ pc = "seed"
    /\ ~IsNone(params.max_distance)
    /\ \E e \in CandidateSet : Length2(e) = Max2
    /\ \E e \in OtherwiseKept : Length2(e) > Max2

\* C19: every edge of every returned path, and of the path being walked, is
\* as an unordered pair a member of the filtered candidate list.
C19_OnlyCandidateEdges ==
    /\ Returned =>
        \A p \in 1..Len(out_curves) : \A k \in 1..Len(out_curves[p]) :
            \E e \in CandidateSet : {e[1], e[2]} = {out_curves[p][k][1], out_curves[p][k][2]}
    /\ pc \in {"walk", "keep"} =>
        \A k \in 1..Len(path) :
            \E e \in CandidateSet : {e[1], e[2]} = {path[k][1], path[k][2]}

\* C19 witness: a returned path of two or more edges while the filters had
\* removed an edge of the triangulation
C19_Witness ==
    /\ Returned
    /\ \E p \in 1..Len(out_curves) : Len(out_curves[p]) >= 2
    /\ \E e \in UniqueEdges(Val(delaunay[value])) : e \notin CandidateSet

\* an unvisited point joined to the terminal point of the last step by a
\* candidate edge
Reachable(c) ==
    /\ \E k \in 1..Len(edges) : edges[k] = <<Terminal, c>> \/ edges[k] = <<c, Terminal>>
    /\ Val(prev).mask[c]

\* C20: every edge walk_edges appends leaves the terminal point of its
\* incoming edge with a strictly positive dot product with the incoming
\* direction.
C20_NeverDoublesBack ==
    StepTaken =>
        /\ Appended[1] = Terminal
        /\ Dot(StepIn, StepVec(Appended[2])) > 0

\* C20 witness: a step passed over a strictly shorter reachable point whose
\* dot product with the incoming direction is zero or negative
C20_Witness ==
    /\ StepTaken
    /\ \E c \in DOMAIN mask :
        /\ Reachable(c)
        /\ Dot(StepIn, StepVec(c)) <= 0
        /\ Norm2(StepVec(c)) < Norm2(StepVec(Appended[2]))

\* the points of the current group not visited yet
Free == {i \in DOMAIN mask : mask[i]}

\* C21: each extension step of walk_edges appends exactly one edge, whose far
\* endpoint was unvisited, and marks exactly that point visited, so a path of
\* n steps has used up n of the group's unvisited points; every walk and every
\* find_curves call comes to an end.
C21_Step ==
    (pc = "walk" /\ path' # path) =>
        /\ Len(path') = Len(path) + 1
        /\ SubSeq(path', 1, Len(path)) = path
        /\ LET far == path'[Len(path')][2]
           IN  /\ mask[far]
               /\ mask' = [mask EXCEPT ![far] = FALSE]
        /\ Cardinality({i \in DOMAIN mask' : mask'[i]}) = Cardinality(Free) - 1

C21_State ==
    pc \in {"walk", "keep"} => (Len(path) - 1) + Cardinality(Free) <= Len(ind) - 2

\* find_curves is running: from its call to its return
InCall == pc \in {"find", "seed", "walk", "keep"}

C21_WalkTerminates ==
    /\ []C21_State
    /\ [][C21_Step]_vars
    /\ InCall ~> (pc \in {"merge", "raised"})

\* C21 witness: a path of three edges, the seed and two extension steps, that
\* used up every point of the group
C21_Witness ==
    /\ pc = "keep"
    /\ Len(path) = 3
    /\ Free = {}

\* the unvisited points (under mask msk) that a candidate edge joins to point
\* p and that lie strictly forward of the direction from q to p
Continuations(q, p, msk) ==
    {c \in DOMAIN msk :
        /\ msk[c]
        /\ \E k \in 1..Len(edges) : edges[k] = <<p, c>> \/ edges[k] = <<c, p>>
        /\ Dot(Sub(vertices[ind[p + 1]], vertices[ind[q + 1]]),
               Sub(vertices[ind[c + 1]], vertices[ind[p + 1]])) > 0}

\* the points of a path with a single incident path edge, each with the
\* point before it: <<q, p>> is an end edge directed to the end p
Ends(pth) ==
    {<<q, p>> \in Endpoints(pth) \X Endpoints(pth) :
        /\ \E k \in 1..Len(pth) : {pth[k][1], pth[k][2]} = {q, p}
        /\ Cardinality({k \in 1..Len(pth) : p \in {pth[k][1], pth[k][2]}}) = 1}

\* C22: a walk_edges call with a valid damping extends the path whenever the
\* terminal point has a continuation (a candidate edge to an unvisited point
\* with strictly positive dot product) and returns only when it has none; a
\* walked path has no continuation at either end.
C22_Step ==
    (pc = "walk" /\ ~(params.damping < 0 \/ params.damping > 2)) =>
        IF Continuations(incoming[1], incoming[2], mask) # {}
        THEN /\ pc' = "walk"
             /\ back' = back
             /\ Len(path') = Len(path) + 1
             /\ path'[Len(path')][1] = incoming[2]
             /\ path'[Len(path')][2] \in Continuations(incoming[1], incoming[2], mask)
        ELSE /\ path' = path
             /\ (pc' = "keep" \/ back' # back)

C22_State ==
    pc = "keep" => \A e \in Ends(path) : Continuations(e[1], e[2], mask) = {}

C22_StopsOnlyWhenStuck == []C22_State /\ [][C22_Step]_vars

\* C22 witness: a walked path of two or more edges one end of which is joined
\* by a candidate edge to an unvisited point that is not forward
C22_Witness ==
    /\ pc = "keep"
    /\ Len(path) >= 2
    /\ \E e \in Ends(path) : \E c \in Free :
            /\ \E k \in 1..Len(edges) : edges[k] = <<e[2], c>> \/ edges[k] = <<c, e[2]>>
            /\ c \notin Continuations(e[1], e[2], mask)

\* number of edges of a path that touch point i
Degree(pth, i) == Cardinality({k \in 1..Len(pth) : i \in {pth[k][1], pth[k][2]}})

\* the edges after the seed split at position b: those before b continue from
\* the seed's second endpoint, the one at b starts at the seed's first endpoint
\* and those after it continue from there
SplitAt(pth, b) ==
    \A k \in 2..Len(pth) :
        IF k = b THEN pth[k][1] = pth[1][1] ELSE pth[k][1] = pth[k - 1][2]

\* a simple connected chain through its first edge
Chain(pth) ==
    /\ pth # <<>>
    /\ \E k \in 1..Len(edges) : edges[k] = pth[1]
    /\ \E b \in 2..(Len(pth) + 1) : SplitAt(pth, b)
    /\ \A k \in 1..Len(pth) : pth[k][1] # pth[k][2]
    /\ \A j \in 1..Len(pth) : \A k \in 2..Len(pth) :
            j # k => pth[k][2] \notin {pth[j][1], pth[j][2]} \/ (j = k + 1 /\ pth[j][1] = pth[k][2])
    /\ \A i \in Endpoints(pth) : Degree(pth, i) <= 2
    /\ Cardinality(Endpoints(pth)) = Len(pth) + 1

\* C23: every path find_curves returns, and the path being walked, is a simple
\* connected chain through its seed: it starts with the seed edge, every later
\* edge starts at the far endpoint of the edge before it or, for the first
\* backward edge, at the seed's first endpoint; no point is reached twice, no
\* point has more than two path edges, and k edges touch k + 1 points.
C23_SimpleChain ==
    /\ Returned => \A p \in 1..Len(out_curves) : Chain(out_curves[p])
    /\ pc \in {"walk", "keep"} => Chain(path) /\ path[1] = edges[seed + 1]

\* C23 witness: a returned path that was extended in both directions
C23_Witness ==
    /\ Returned
    /\ \E p \in 1..Len(out_curves) :
            \E b \in 3..Len(out_curves[p]) : SplitAt(out_curves[p], b)

\* get_connections returned edges
WithCells == pc \in {"returned", "done"} /\ ~IsNone(Val(result).cells)

\* the edges get_connections returned
Cells == Val(Val(result).cells)

\* C24: when get_connections returns edges, the renumbering is an
\* order-preserving bijection from the M point indices used by the kept paths
\* onto 0..M-1: there are M output vertices, every output edge index is below
\* M, every output vertex is referenced by an output edge, and the output
\* vertices of an edge have the coordinates of its two original points.
C24_Renumbering ==
    WithCells =>
        LET M == Cardinality(UsedPoints(path_list))
            out == Val(result).vertices
        IN  /\ DOMAIN out = 0..(M - 1)
            /\ Len(Cells) = Len(path_list)
            /\ \A k \in 1..Len(Cells) : \A a \in 1..2 :
                    /\ Cells[k][a] \in 0..(M - 1)
                    /\ out[Cells[k][a]] = vertices[path_list[k][a]]
            /\ \A v \in 0..(M - 1) : \E k \in 1..Len(Cells) : v \in {Cells[k][1], Cells[k][2]}
            /\ \A k \in 1..Len(Cells) : \A l \in 1..Len(Cells) : \A a \in 1..2 : \A b \in 1..2 :
                    (path_list[k][a] < path_list[l][b]) <=> (Cells[k][a] < Cells[l][b])

\* C24 witness: edges are returned and an input point that no path uses comes
\* before a used one, so the used point gets a smaller number
C24_Witness ==
    /\ WithCells
    /\ \E i \in Idx \ UsedPoints(path_list) : \E j \in UsedPoints(path_list) : i < j

\* every output vertex carries the label of the input point at its position,
\* and the two endpoints of every output edge carry the same label
LabelsPropagated ==
    LET out == Val(result)
    IN  /\ \A k \in DOMAIN out.vertices : \A i \in DOMAIN vertices :
                vertices[i] = out.vertices[k] => out.labels[k] = labels[i]
        /\ ~IsNone(out.cells) =>
                \A k \in 1..Len(Cells) : out.labels[Cells[k][1]] = out.labels[Cells[k][2]]

\* C25 as stated: whatever get_connections returns, the label of every output
\* vertex is the group label of the input point it came from, and the two
\* endpoints of every output edge carry the same label.
C25_LabelsEver ==
    pc \in {"returned", "done"} => LabelsPropagated

\* C25 amended: the same whenever get_connections returns edges, that is when
\* at least one path was kept (with no path it returns the input vertices
\* with all-zero labels).
C25_LabelsInCurve ==
    WithCells => LabelsPropagated

\* C25 witness: edges are returned whose vertices carry two different labels
C25_Witness ==
    /\ WithCells
    /\ \E k \in DOMAIN Val(result).labels : \E l \in DOMAIN Val(result).labels :
            Val(result).labels[k] # Val(result).labels[l]

\* the edges of a list of paths, as a set
PathEdges(curves) ==
    UNION {{curves[p][k] : k \in 1..Len(curves[p])} : p \in 1..Len(curves)}

\* the edges of the paths find_curves has just returned, as indices into the
\* full vertex array
FoundEdges == {<<ind[e[1] + 1], ind[e[2] + 1]>> : e \in PathEdges(out_curves)}

\* C26: PartsConnectionDriver.get_connections returns the kept paths of every
\* label value as indices into the full vertex array: after each find_curves
\* call it holds the edges it held before and the edges of that call in
\* full-array indices, and it returns what it holds.
C26_Step ==
    (pc = "merge" /\ pc' = "loop") =>
        PathEdges(path_list') = PathEdges(path_list) \cup FoundEdges

C26_State ==
    pc = "returned" => Val(result) = [vertices |-> vertices, cells |-> path_list]

C26_AllLabelsReturned == []C26_State /\ [][C26_Step]_vars

\* C27: with only one of azimuth and azimuth_tol set find_curves raises no
\* error (the only error is the damping error) and the run ends as the run with
\* both unset: same paths, same vertices, edges and labels.
C27_HalfSetIsUnset ==
    /\ pc = "raised" => (params.damping < 0 \/ params.damping > 2)
    /\ (run = 2 /\ pc = "done") =>
            /\ out_curves = Val(first).out_curves
            /\ result = Val(first).result
            /\ curve = Val(first).curve

\* C27 witness: the azimuth alone was set to north, and both runs end with a
\* curve that has an edge more than 30 degrees off north and south
C27_Witness ==
    /\ run = 2
    /\ pc = "done"
    /\ Val(first).params.azimuth = Some(0)
    /\ ~IsNone(curve)
    /\ \E k \in 1..Len(path_list) : ~filter_segments_orientation(vertices, path_list[k], 0, 300)

\* the points of the paths the current call has finished walking
WalkedPoints == UNION {Endpoints(walked[w]) : w \in 1..Len(walked)}

\* C28: within one find_curves call a visited point never becomes unvisited;
\* the points of every walked path, kept or discarded for being shorter than
\* min_edges, stay visited, and no later walker step reaches one of them.
C28_Step ==
    pc \in {"seed", "walk", "keep"} =>
        /\ DOMAIN mask' = DOMAIN mask
        /\ \A i \in DOMAIN mask : ~mask[i] => ~mask'[i]

C28_State ==
    /\ pc \in {"seed", "walk", "keep", "merge"} => \A i \in WalkedPoints : ~mask[i]
    /\ pc \in {"walk", "keep"} => \A k \in 2..Len(path) : path[k][2] \notin WalkedPoints

C28_VisitedStaysVisited == []C28_State /\ [][C28_Step]_vars

\* C28 witness: a path was discarded and a later path was walked one end of
\* which has a candidate edge to a point of the discarded path
C28_Witness ==
    /\ pc = "seed"
    /\ \E w \in 1..Len(walked) : \E x \in (w + 1)..Len(walked) :
            /\ Len(walked[w]) < params.min_edges
            /\ \E e \in Ends(walked[x]) : \E c \in Endpoints(walked[w]) \ Endpoints(walked[x]) :
                    \E k \in 1..Len(edges) : edges[k] = <<e[2], c>> \/ edges[k] = <<c, e[2]>>

\* the points of the paths find_curves returned
ReturnedPoints == UNION {Endpoints(out_curves[p]) : p \in 1..Len(out_curves)}

\* C29: when find_curves returns with min_edges at most 1, every endpoint of
\* every filtered candidate edge is an endpoint of a returned path.
C29_NoCandidatePointLeftOut ==
    (Returned /\ ~IsNone(delaunay[value]) /\ params.min_edges <= 1) =>
        \A e \in CandidateSet : e[1] \in ReturnedPoints /\ e[2] \in ReturnedPoints

\* C29 witness: find_curves returned with min_edges 1 two paths, the later one
\* seeded by an edge that has an endpoint on the earlier one: the other
\* endpoint is connected only because that edge was not skipped
C29_Witness ==
    /\ Returned
    /\ params.min_edges = 1
    /\ \E p \in 1..Len(out_curves) : \E q \in (p + 1)..Len(out_curves) :
            out_curves[q][1][1] \in Endpoints(out_curves[p])
                \/ out_curves[q][1][2] \in Endpoints(out_curves[p])

\* the positions <<p, k>> of the edges of a list of paths
Positions(curves) ==
    UNION {{<<p, k>> : k \in 1..Len(curves[p])} : p \in 1..Len(curves)}

\* C30: no undirected edge occurs twice in what find_curves returns, neither
\* twice in one path nor in two different paths.
C30_NoEdgeTwice ==
    Returned =>
        \A a \in Positions(out_curves) : \A b \in Positions(out_curves) :
            a # b =>
                {out_curves[a[1]][a[2]][1], out_curves[a[1]][a[2]][2]}
                    # {out_curves[b[1]][b[2]][1], out_curves[b[1]][b[2]][2]}

\* C30 witness: find_curves returned two paths or more, one of them with an
\* edge the walker appended, which is also a later row of the edge list
C30_Witness ==
    /\ Returned
    /\ Len(out_curves) >= 2
    /\ \E p \in 1..Len(out_curves) : \E k \in 2..Len(out_curves[p]) :
            \E i \in 1..Len(edges) : \E j \in (i + 1)..Len(edges) :
                /\ edges[i] = out_curves[p][1]
                /\ {edges[j][1], edges[j][2]} = {out_curves[p][k][1], out_curves[p][k][2]}

====
